---------------------------- MODULE Spec2Model ----------------------------
(***************************************************************************)
(* State-machine model of ArrayInference/writeExpressions.cpp (DawnCC):    *)
(* the WriteExpressions pass that walks the region tree of each function,  *)
(* decides which loops / regions to annotate and merges the annotation     *)
(* fragments into the line-indexed Comments map.                           *)
(*                                                                         *)
(* Strings are sequences of tokens (a token is a piece of text that the    *)
(* pass never splits); std::string::find is the contiguous-subsequence     *)
(* test on them.  The recursion of regionIdentify and of                   *)
(* regionIdentifyCoalescing is always the last thing an activation does    *)
(* (for every child: recurse; return), so the activations are executed in  *)
(* pre-order from the sequence `pending`, one action per activation.       *)
(***************************************************************************)
EXTENDS Integers, Sequences, FiniteSets, TLC

\* ------------------------------------------------------------------ bounds
MaxFragLen == 2     \* longest fragment handed to addCommentToLine directly
MaxLine    == 2     \* source lines 1..MaxLine in the Comments-only runs
MaxOps     == 2     \* operations in a Comments-only run
MaxCalls   == 2     \* call instructions per function body
MaxFuncs   == 2     \* functions of a module passed to runOnFunction in turn

\* --------------------------------------------------------------- constants
ERROR_VALUE == -1
ACC     == "0"
OMP_GPU == "1"
OMP_CPU == "2"

VARIABLES
  ClEmitParallel,    \* -Emit-Parallel
  ClEmitOMP,         \* -Emit-OMP
  ClDivergent,       \* -Discard-Divergent
  ClCoalescing,      \* -Memory-Coalescing
  numL,              \* STATISTIC "Number of loops"
  numAL,             \* STATISTIC "Number of analyzable loops"
  numWL,             \* STATISTIC "Number of annotated loops"
  NewVars,           \* sequence number of the last computation name
  Comments,          \* std::map<unsigned, std::string>: line -> text
  routines,          \* std::map<std::string, bool>: its key set
  callGraph,         \* the translation unit's functions: linkage and calls
  program,           \* functions not passed to runOnFunction yet
  fn,                \* the function under analysis and its analysis results
  RegionsRangeData,  \* ptrRA->RegionsRangeData[r].HasFullSideEffectInfo
  pending,           \* regions whose traversal activation is still to run
  last,              \* history: what the last operation was applied to
  names              \* history: every sequence number handed out in the run

vars == << ClEmitParallel, ClEmitOMP, ClDivergent, ClCoalescing, numL, numAL,
           numWL, NewVars, Comments, routines, callGraph, program, fn,
           RegionsRangeData, pending, last, names >>

config == << ClEmitParallel, ClEmitOMP, ClDivergent, ClCoalescing >>

\* ---------------------------------------------------------------- strings
Alphabet == {"a", "b"}

SeqsUpTo(S, n) == UNION { [1..k -> S] : k \in 0..n }

Fragments == SeqsUpTo(Alphabet, MaxFragLen)

Lines == 1..MaxLine

\* std::string::find(Comment) != npos
IsSubstring(f, t) ==
  \E i \in 0..(Len(t) - Len(f)) : SubSeq(t, i + 1, i + Len(f)) = f

NoComments == [l \in {} |-> << >>]

\* the text of a line, empty when the map has no entry for it
TextAt(C, line) == IF line \in DOMAIN C THEN C[line] ELSE << >>

\* faulty variant: a fragment is skipped only when the whole text equals it
addCommentToLineEq(C, Comment, Line) ==
  IF Line \notin DOMAIN C
    THEN [l \in DOMAIN C \cup {Line} |-> IF l = Line THEN Comment ELSE C[l]]
    ELSE IF C[Line] # Comment
      THEN [C EXCEPT ![Line] = @ \o Comment]
      ELSE C

addCommentToLine(C, Comment, Line) ==
  IF Line \notin DOMAIN C
    THEN [l \in DOMAIN C \cup {Line} |-> IF l = Line THEN Comment ELSE C[l]]
    ELSE IF ~IsSubstring(Comment, C[Line])
      THEN [C EXCEPT ![Line] = @ \o Comment]
      ELSE C

Min(S) == CHOOSE x \in S : \A y \in S : x <= y

\* std::map iteration is in ascending key order
RECURSIVE copyComments(_, _)
copyComments(C, CommentsIn) ==
  IF DOMAIN CommentsIn = {}
    THEN C
    ELSE LET l == Min(DOMAIN CommentsIn)
             rest == [k \in DOMAIN CommentsIn \ {l} |-> CommentsIn[k]]
         IN copyComments(addCommentToLine(C, CommentsIn[l], l), rest)

\* ------------------------------------------------------------ call graph
Funcs == {"F", "G", "H"}

Kinds == {"defined", "declaration", "intrinsic", "available_externally"}

isDeclaration(f) == callGraph[f].kind \in {"declaration", "intrinsic"}

isIntrinsic(f) == callGraph[f].kind = "intrinsic"

hasAvailableExternallyLinkage(f) == callGraph[f].kind = "available_externally"

\* the call instructions of a body, in instruction order (none in a declaration)
CallLists == SeqsUpTo(Funcs, MaxCalls)

\* More activations of findACCroutines than this cannot belong to a run that
\* ends: an activation that scans a body registers its function first, so at
\* most one body per function is scanned and every further activation starts
\* from a call instruction of a scanned body.  Activations beyond the budget
\* are not executed and are recorded as `diverged`.
ActivationBudget == 1 + Cardinality(Funcs) * (MaxCalls + 1)

\* ------------------------------------------------ state threaded through calls
\* The members and statistics one handler activation reads and writes, with
\* the history of what it did: activations of findACCroutines, functions
\* registered, loops for which denotateLoopParallel emitted, loops passed to
\* writeKernels (with whether a directive was emitted), sequence numbers used.
Now ==
  [ Comments |-> Comments, numAL |-> numAL, numWL |-> numWL,
    NewVars |-> NewVars, routines |-> routines,
    activations |-> 0, diverged |-> FALSE, regs |-> << >>,
    emitted |-> << >>, kernels |-> << >>, allocs |-> << >> ]

Commit(s) ==
  /\ Comments' = s.Comments
  /\ numAL' = s.numAL
  /\ numWL' = s.numWL
  /\ NewVars' = s.NewVars
  /\ routines' = s.routines
  /\ names' = names \o s.allocs

\* ------------------------------------------------------- findACCroutines
RECURSIVE findACCroutines(_, _), scanCalls(_, _), scanCallsUnchecked(_, _)

\* faulty variant: the callee is visited whether or not it is registered
scanCallsUnchecked(cs, s) ==
  IF cs = << >>
    THEN s
    ELSE scanCallsUnchecked(Tail(cs), findACCroutines(Head(cs), s))

\* the loop over the call instructions of a body (lines 513-521, and the same
\* loop over a loop's or region's blocks at lines 295-303 and 416-424)
scanCalls(cs, s) ==
  IF cs = << >>
    THEN s
    ELSE scanCalls(Tail(cs),
                   IF Head(cs) \notin s.routines
                     THEN findACCroutines(Head(cs), s)
                     ELSE s)

findACCroutines(f, s) ==
  IF s.activations >= ActivationBudget
    THEN [s EXCEPT !.diverged = TRUE]
    ELSE
      LET s0 == [s EXCEPT !.activations = @ + 1]
      IN IF \/ isDeclaration(f) \/ isIntrinsic(f)
            \/ hasAvailableExternallyLinkage(f) \/ ClEmitOMP # ACC
           THEN s0
           ELSE LET s1 == IF f \notin s0.routines
                            THEN [s0 EXCEPT !.routines = @ \cup {f},
                                            !.regs = Append(@, f)]
                            ELSE s0
                IN scanCalls(callGraph[f].calls, s1)

\* ------------------------------------------------- regions, loops, blocks
\* What LoopInfo, RegionInfo and ScopeTree give for one function.  `blocks`
\* is the function's block list; `rblocks[r]` enumerates the blocks of
\* region r from its entry block; `loopFor` is LoopInfo::getLoopFor (the
\* innermost loop of a block) and `regionFor` is RegionInfo::getRegionFor
\* (the innermost region of a block); `startRL`/`endRL` are the lines of
\* ScopeTree::getStartRegionLoops / getEndRegionLoops; `calls[b]` are the
\* callees of the call instructions of block b.
NoLoop == "NoLoop"

NoRegion == "NoRegion"

NoFunction == "NoFunction"

NoCalls(bs) == [b \in bs |-> << >>]

\* a for loop that is a region of its own
Single ==
  [ blocks    |-> << "e", "h", "b", "x" >>,
    loopFor   |-> [e |-> NoLoop, h |-> "L1", b |-> "L1", x |-> NoLoop],
    subLoops  |-> [L1 |-> << >>],
    header    |-> [L1 |-> "h"],
    startLine |-> [L1 |-> 3],
    top       |-> "T",
    children  |-> [T |-> << "R1" >>, R1 |-> << >>],
    rblocks   |-> [T |-> << "e", "h", "b", "x" >>, R1 |-> << "h", "b" >>],
    regionFor |-> [e |-> "T", h |-> "R1", b |-> "R1", x |-> "T"],
    entering  |-> [T |-> FALSE, R1 |-> TRUE],
    startRL   |-> [T |-> 3, R1 |-> 3],
    endRL     |-> [T |-> 6, R1 |-> 4],
    calls     |-> [e |-> << >>, h |-> << >>, b |-> << "G" >>, x |-> << >>] ]

\* a loop nest: L2 inside L1, each loop a region
Nest ==
  [ blocks    |-> << "e", "h1", "h2", "b2", "l1", "x" >>,
    loopFor   |-> [e |-> NoLoop, h1 |-> "L1", h2 |-> "L2", b2 |-> "L2",
                   l1 |-> "L1", x |-> NoLoop],
    subLoops  |-> [L1 |-> << "L2" >>, L2 |-> << >>],
    header    |-> [L1 |-> "h1", L2 |-> "h2"],
    startLine |-> [L1 |-> 2, L2 |-> 3],
    top       |-> "T",
    children  |-> [T |-> << "R1" >>, R1 |-> << "R2" >>, R2 |-> << >>],
    rblocks   |-> [T |-> << "e", "h1", "h2", "b2", "l1", "x" >>,
                   R1 |-> << "h1", "h2", "b2", "l1" >>,
                   R2 |-> << "h2", "b2" >>],
    regionFor |-> [e |-> "T", h1 |-> "R1", h2 |-> "R2", b2 |-> "R2",
                   l1 |-> "R1", x |-> "T"],
    entering  |-> [T |-> FALSE, R1 |-> TRUE, R2 |-> TRUE],
    startRL   |-> [T |-> 2, R1 |-> 2, R2 |-> 3],
    endRL     |-> [T |-> 7, R1 |-> 5, R2 |-> 4],
    calls     |-> [e |-> << >>, h1 |-> << >>, h2 |-> << >>, b2 |-> << "G" >>,
                   l1 |-> << >>, x |-> << >>] ]

\* a loop with two exits (no region of its own) whose body holds two
\* conditionals, each a region; the second is entered from two blocks
Split ==
  [ blocks    |-> << "e", "h", "c1", "t1", "c2", "t2", "l", "x" >>,
    loopFor   |-> [e |-> NoLoop, h |-> "L1", c1 |-> "L1", t1 |-> "L1",
                   c2 |-> "L1", t2 |-> "L1", l |-> "L1", x |-> NoLoop],
    subLoops  |-> [L1 |-> << >>],
    header    |-> [L1 |-> "h"],
    startLine |-> [L1 |-> 2],
    top       |-> "T",
    children  |-> [T |-> << "R1", "R2" >>, R1 |-> << >>, R2 |-> << >>],
    rblocks   |-> [T |-> << "e", "h", "c1", "t1", "c2", "t2", "l", "x" >>,
                   R1 |-> << "c1", "t1" >>, R2 |-> << "c2", "t2" >>],
    regionFor |-> [e |-> "T", h |-> "T", c1 |-> "R1", t1 |-> "R1",
                   c2 |-> "R2", t2 |-> "R2", l |-> "T", x |-> "T"],
    entering  |-> [T |-> FALSE, R1 |-> TRUE, R2 |-> FALSE],
    startRL   |-> [T |-> 2, R1 |-> 2, R2 |-> 2],
    endRL     |-> [T |-> 9, R1 |-> 4, R2 |-> 6],
    calls     |-> [e |-> << >>, h |-> << >>, c1 |-> << >>, t1 |-> << "G" >>,
                   c2 |-> << >>, t2 |-> << >>, l |-> << >>, x |-> << >>] ]

\* a loop followed by a statement: the loop region R2 and the region R1 that
\* extends it over the following block x have the same entry block h
Extended ==
  [ blocks    |-> << "e", "h", "b", "x", "y" >>,
    loopFor   |-> [e |-> NoLoop, h |-> "L1", b |-> "L1", x |-> NoLoop,
                   y |-> NoLoop],
    subLoops  |-> [L1 |-> << >>],
    header    |-> [L1 |-> "h"],
    startLine |-> [L1 |-> 2],
    top       |-> "T",
    children  |-> [T |-> << "R1" >>, R1 |-> << "R2" >>, R2 |-> << >>],
    rblocks   |-> [T |-> << "e", "h", "b", "x", "y" >>,
                   R1 |-> << "h", "b", "x" >>, R2 |-> << "h", "b" >>],
    regionFor |-> [e |-> "T", h |-> "R2", b |-> "R2", x |-> "R1", y |-> "T"],
    entering  |-> [T |-> FALSE, R1 |-> TRUE, R2 |-> TRUE],
    startRL   |-> [T |-> 2, R1 |-> 2, R2 |-> 2],
    endRL     |-> [T |-> 7, R1 |-> 5, R2 |-> 3],
    calls     |-> [e |-> << >>, h |-> << >>, b |-> << "G" >>, x |-> << "H" >>,
                   y |-> << >>] ]

\* a loop forest for the loop-level operations: L1 holds the siblings L2 and
\* L3, L2 holds L4; region R1 holds the headers of L1, L2 and L4, region R2
\* those of L2 and L4, region R3 a block of L1 (not its header) and the
\* header of L3
Forest ==
  [ blocks    |-> << "e", "h1", "h2", "h4", "b1", "h3" >>,
    loopFor   |-> [e |-> NoLoop, h1 |-> "L1", h2 |-> "L2", h4 |-> "L4",
                   b1 |-> "L1", h3 |-> "L3"],
    subLoops  |-> [L1 |-> << "L2", "L3" >>, L2 |-> << "L4" >>, L3 |-> << >>,
                   L4 |-> << >>],
    header    |-> [L1 |-> "h1", L2 |-> "h2", L3 |-> "h3", L4 |-> "h4"],
    startLine |-> [L1 |-> 1, L2 |-> 2, L3 |-> 5, L4 |-> 3],
    top       |-> "T",
    children  |-> [T |-> << "R1", "R3" >>, R1 |-> << "R2" >>, R2 |-> << >>,
                   R3 |-> << >>],
    rblocks   |-> [T |-> << "e", "h1", "h2", "h4", "b1", "h3" >>,
                   R1 |-> << "h1", "h2", "h4" >>,
                   R2 |-> << "h2", "h4" >>,
                   R3 |-> << "b1", "h3" >>],
    regionFor |-> [e |-> "T", h1 |-> "R1", h2 |-> "R2", h4 |-> "R2",
                   b1 |-> "R3", h3 |-> "R3"],
    entering  |-> [T |-> FALSE, R1 |-> TRUE, R2 |-> TRUE, R3 |-> TRUE],
    startRL   |-> [T |-> 1, R1 |-> 1, R2 |-> 2, R3 |-> 1],
    endRL     |-> [T |-> 8, R1 |-> 4, R2 |-> 4, R3 |-> 6],
    calls     |-> NoCalls({"e", "h1", "h2", "h4", "b1", "h3"}) ]

Shapes ==
  [ Single |-> Single, Nest |-> Nest, Split |-> Split, Extended |-> Extended,
    Forest |-> Forest ]

\* the function under analysis
CFG == Shapes[fn.cfg]

LoopsOf(g) == DOMAIN g.subLoops

RegionsOf(g) == DOMAIN g.children

Range(q) == { q[i] : i \in DOMAIN q }

\* L and every loop nested in it
RECURSIVE Nested(_, _)
Nested(g, L) == {L} \cup UNION { Nested(g, M) : M \in Range(g.subLoops[L]) }

\* Loop::block_begin() .. block_end(): the blocks of L and of its sub-loops
LoopBlocks(g, L) == SelectSeq(g.blocks, LAMBDA b : g.loopFor[b] \in Nested(g, L))

\* Region::contains(block)
Contains(g, R, b) == b \in Range(g.rblocks[R])

isTopLevelRegion(g, R) == R = g.top

\* the callees of the call instructions of a block sequence, in order
RECURSIVE CallsIn(_, _)
CallsIn(g, bs) ==
  IF bs = << >> THEN << >> ELSE g.calls[Head(bs)] \o CallsIn(g, Tail(bs))

\* std::to_string of a small unsigned number
ComputationName(n) == << "AI", ToString(n) >>

\* --------------------------------------------------------- safety predicates
\* the metadata of the latch terminator of L
isParallelMD(L) == fn.isParallel[L]

isDivergentMD(L) == fn.isDivergent[L]

\* faulty variant: the divergent marker is not looked at
isLoopParallelAnyway(L) ==
  IF ~fn.hasLatch[L] THEN FALSE
  ELSE IF ~isParallelMD(L) THEN FALSE
  ELSE TRUE

isLoopParallel(L) ==
  IF ~fn.hasLatch[L] THEN FALSE
  ELSE IF ~isParallelMD(L) THEN FALSE
  ELSE IF ClDivergent /\ isDivergentMD(L) THEN FALSE
  ELSE TRUE

\* faulty variant: the regions of the blocks of the loop are not looked at
isLoopAnalyzableHeader(L) ==
  RegionsRangeData[CFG.regionFor[CFG.header[L]]]

isLoopAnalyzable(L) ==
  /\ RegionsRangeData[CFG.regionFor[CFG.header[L]]]
  /\ \A b \in Range(LoopBlocks(CFG, L)) :
       RegionsRangeData[CFG.regionFor[b]]

isSafeMemoryCoalescing(R) ==
  IF ~CFG.entering[R] /\ ~isTopLevelRegion(CFG, R) THEN FALSE
  ELSE IF ~ClEmitParallel THEN TRUE
  ELSE \A b \in Range(CFG.rblocks[R]) :
         CFG.loopFor[b] = NoLoop \/ isLoopParallel(CFG.loopFor[b])

\* ------------------------------------------------------ loop-level operations
LoopPragma(condition) ==
  IF ClEmitOMP = OMP_GPU \/ ClEmitOMP = OMP_CPU
    THEN << "#pragma omp parallel for " >> \o condition \o << "\n" >>
    ELSE << "#pragma acc loop independent " >> \o condition \o << "\n" >>

RECURSIVE denotateLoopParallel(_, _, _), denotateSubLoops(_, _, _),
          denotateLoopParallelAll(_, _, _)

denotateSubLoops(Ls, condition, s) ==
  IF Ls = << >>
    THEN s
    ELSE denotateSubLoops(Tail(Ls), condition,
                          denotateLoopParallel(Head(Ls), condition, s))

\* faulty variant: the latch and its markers are not looked at
denotateLoopParallelAll(L, condition, s) ==
  denotateSubLoops(CFG.subLoops[L], condition,
    [s EXCEPT !.numWL = @ + 1,
              !.Comments = addCommentToLine(@, LoopPragma(condition),
                                            CFG.startLine[L]),
              !.emitted = Append(@, L)])

denotateLoopParallel(L, condition, s) ==
  IF ~fn.hasLatch[L] THEN s
  ELSE IF ClDivergent /\ isDivergentMD(L) THEN s
  ELSE IF ~isParallelMD(L) THEN s
  ELSE denotateSubLoops(CFG.subLoops[L], condition,
         [s EXCEPT !.numWL = @ + 1,
                   !.Comments = addCommentToLine(@, LoopPragma(condition),
                                                 CFG.startLine[L]),
                   !.emitted = Append(@, L)])

RECURSIVE marknumAL(_, _), marknumALSubLoops(_, _)

marknumALSubLoops(Ls, s) ==
  IF Ls = << >> THEN s
  ELSE marknumALSubLoops(Tail(Ls), marknumAL(Head(Ls), s))

marknumAL(L, s) ==
  marknumALSubLoops(CFG.subLoops[L], [s EXCEPT !.numAL = @ + 1])

RECURSIVE marknumWL(_, _), marknumWLSubLoops(_, _)

marknumWLSubLoops(Ls, s) ==
  IF Ls = << >> THEN s
  ELSE marknumWLSubLoops(Tail(Ls), marknumWL(Head(Ls), s))

marknumWL(L, s) ==
  marknumWLSubLoops(CFG.subLoops[L], [s EXCEPT !.numWL = @ + 1])

KernelsPragma(NAME, restric) ==
  << "#pragma acc kernels" >>
    \o (IF restric THEN << " if(!RST_" >> \o NAME \o << ")" >> ELSE << >>)
    \o << "\n" >>

\* `kernels` records every loop passed to writeKernels
writeKernels(L, NAME, restric, s) ==
  LET s0 == [s EXCEPT !.kernels = Append(@, L)]
      pragma == KernelsPragma(NAME, restric)
      line == CFG.startLine[L]
  IN IF ~ClEmitParallel /\ ClEmitOMP = ACC
       THEN [s0 EXCEPT !.Comments = addCommentToLine(@, pragma, line)]
     ELSE IF ~fn.hasLatch[L] THEN s0
     ELSE IF ~isParallelMD(L) THEN s0
     ELSE LET s1 == [s0 EXCEPT !.numWL = @ + 1]
              s2 == IF ClEmitOMP = ACC
                      THEN [s1 EXCEPT
                              !.Comments = addCommentToLine(@, pragma, line)]
                      ELSE s1
          IN IF ClEmitParallel
               THEN marknumWL(L, denotateLoopParallel(L, << >>, s2))
               ELSE s2

\* The loop over the blocks of R (lines 377-396); `loops` is the std::map of
\* loops seen.  The queue pass marks l and every loop nested in l.
RECURSIVE annotateBlocks(_, _, _, _, _, _), annotateBlocksNoMark(_, _, _, _, _, _)

\* faulty variant: only the loop itself is marked, not the loops nested in it
annotateBlocksNoMark(R, bs, loops, NAME, restric, s) ==
  IF bs = << >> THEN s
  ELSE LET l == CFG.loopFor[Head(bs)]
       IN IF l = NoLoop
            THEN annotateBlocksNoMark(R, Tail(bs), loops, NAME, restric, s)
          ELSE IF ~Contains(CFG, R, CFG.header[l])
            THEN annotateBlocksNoMark(R, Tail(bs), loops, NAME, restric, s)
          ELSE annotateBlocksNoMark(R, Tail(bs), loops \cup {l}, NAME, restric,
                 IF l \notin loops THEN writeKernels(l, NAME, restric, s)
                                   ELSE s)

annotateBlocks(R, bs, loops, NAME, restric, s) ==
  IF bs = << >> THEN s
  ELSE LET l == CFG.loopFor[Head(bs)]
       IN IF l = NoLoop
            THEN annotateBlocks(R, Tail(bs), loops, NAME, restric, s)
          ELSE IF ~Contains(CFG, R, CFG.header[l])
            THEN annotateBlocks(R, Tail(bs), loops, NAME, restric, s)
          ELSE annotateBlocks(R, Tail(bs), loops \cup Nested(CFG, l),
                 NAME, restric,
                 IF l \notin loops THEN writeKernels(l, NAME, restric, s)
                                   ELSE s)

\* The function ends without a return statement: the value it hands back is
\* whatever the build leaves there.  Its only caller (line 428) discards it,
\* so the model keeps the state changes alone.
\* `bs` is the order in which R->block_begin() .. block_end() yields the
\* blocks of R.
annotateAccKernels(R, bs, NAME, restric, s) ==
  IF ~isSafeMemoryCoalescing(R)
    THEN s
    ELSE annotateBlocks(R, bs, {}, NAME, restric, s)

\* ------------------------------------------------------- region traversal
\* What the collaborators answer during one activation of a traversal
\* function; each is asked at most once per activation:
\*   safe    st->isSafetlyRegionLoops(R)
\*   ok      RC.analyzeLoop(...) / RC.analyzeRegion(...)
\*   restric whether the recovery asks for a restrict test (the text `test`
\*           of analyzeLoop, the flag RC.restric of analyzeRegion)
\*   frag    whether RC.Comments holds a fragment of its own (at `line`)
\*   RR      rr->returnReducedRegion(R)
\*   rrFull  HasFullSideEffectInfo of RR once ptrRA->analyzeReducedRegion(R)
\*           has run
RECURSIVE Descendants(_, _)
Descendants(g, R) ==
  Range(g.children[R]) \cup UNION { Descendants(g, C) : C \in Range(g.children[R]) }

Recoveries ==
  { o \in [ok : BOOLEAN, restric : BOOLEAN, frag : BOOLEAN] :
      ~o.ok => (~o.restric /\ ~o.frag) }

Reductions(g, R) ==
  { [RR |-> NoRegion, rrFull |-> FALSE] }
    \cup [ RR : Descendants(g, R), rrFull : BOOLEAN ]

Answers(g, R) ==
  { [ safe |-> safe, ok |-> c.ok, restric |-> c.restric, frag |-> c.frag,
      RR |-> d.RR, rrFull |-> d.rrFull ] :
      safe \in BOOLEAN, c \in Recoveries, d \in Reductions(g, R) }

\* An answer the activation never asks for is left at its default (safe,
\* recovered, no restrict test, no fragment, no reduced region): `asked`
\* names the collaborators the activation consulted.
AsAsked(o, asked) ==
  /\ "safe" \notin asked => o.safe
  /\ "recovery" \notin asked => (o.ok /\ ~o.restric /\ ~o.frag)
  /\ "reduction" \notin asked => o.RR = NoRegion

RestrictTest(NAME, restric) ==
  IF restric THEN << "if(!RST_" >> \o NAME \o << ")" >> ELSE << >>

\* RC.Comments after a successful analysis
RecoveredComments(frag, line) ==
  IF frag
    THEN [l \in {line} |-> << "#pragma acc data", "\n", "{\n" >>]
    ELSE NoComments

\* NewVars++ and the name built from it (lines 280-282 and 401-403)
newComputation(s) ==
  [s EXCEPT !.NewVars = @ + 1, !.allocs = Append(@, s.NewVars + 1)]

\* One activation of regionIdentify without the recursive calls: the state
\* it leaves, whether it goes on into the child regions, and the loop it
\* annotated (NoLoop when none).
Outcome(s, asked, descend, loop, region, line, lineEnd) ==
  [ s |-> s, asked |-> asked, descend |-> descend, loop |-> loop,
    region |-> region, line |-> line, lineEnd |-> lineEnd ]

regionIdentify(R, o, s) ==
  LET g == CFG
      l == g.loopFor[Head(g.rblocks[R])]
  IN IF l = NoLoop \/ (~isLoopParallel(l) /\ ClEmitParallel)
       THEN Outcome(s, {}, TRUE, NoLoop, NoRegion, ERROR_VALUE, ERROR_VALUE)
     ELSE IF ~isLoopAnalyzable(l)
       THEN Outcome(s, {}, TRUE, NoLoop, NoRegion, ERROR_VALUE, ERROR_VALUE)
     ELSE IF ~o.safe
       THEN Outcome(s, {"safe"}, TRUE, NoLoop, NoRegion, ERROR_VALUE,
                    ERROR_VALUE)
     ELSE
       LET s1 == marknumAL(l, s)
           line == g.startLine[l]
       IN IF line = ERROR_VALUE
            THEN Outcome(s1, {"safe"}, FALSE, NoLoop, NoRegion, ERROR_VALUE,
                         ERROR_VALUE)
          ELSE
            LET s2 == newComputation(s1)
                computationName == ComputationName(s2.NewVars)
                test == RestrictTest(computationName, o.restric)
            IN IF ~o.ok
                 THEN Outcome(s2, {"safe", "recovery"}, FALSE, NoLoop,
                              NoRegion, line, ERROR_VALUE)
               ELSE
                 LET s3 == scanCalls(CallsIn(g, LoopBlocks(g, l)), s2)
                     s4 == [s3 EXCEPT !.Comments =
                              copyComments(@, RecoveredComments(o.frag, line))]
                 IN Outcome(IF ClEmitParallel
                              THEN denotateLoopParallel(l, test, s4)
                              ELSE marknumWL(l, s4),
                            {"safe", "recovery"}, FALSE, l, NoRegion, line,
                            ERROR_VALUE)

writeComputation(line, lineEnd, R, o, s) ==
  LET g == CFG
      s1 == newComputation(s)
      computationName == ComputationName(s1.NewVars)
  IN IF ~o.ok
       THEN s1
       ELSE
         LET s2 == scanCalls(CallsIn(g, g.rblocks[R]), s1)
             s3 == [s2 EXCEPT !.Comments =
                      copyComments(@, RecoveredComments(o.frag, line))]
             s4 == annotateAccKernels(R, g.rblocks[R], computationName,
                                      o.restric, s3)
         IN [s4 EXCEPT !.Comments = addCommentToLine(@, << "}\n" >>, lineEnd)]

\* ptrRA->analyzeReducedRegion(R): the range data of the reduced region is
\* computed anew
analyzeReducedRegion(data, o) ==
  IF o.RR = NoRegion THEN data ELSE [data EXCEPT ![o.RR] = o.rrFull]

\* One activation of regionIdentifyCoalescing without the recursive calls.
\* `region` is the region handed to writeComputation (NoRegion when none).
regionIdentifyCoalescing(R, o, s) ==
  LET g == CFG
      line == g.startRL[R]
      lineEnd == g.endRL[R] + 1
      none(asked) ==
        Outcome(s, asked, TRUE, NoLoop, NoRegion, ERROR_VALUE, ERROR_VALUE)
  IN IF ~isSafeMemoryCoalescing(R)
       THEN none({})
     ELSE IF ~o.safe
       THEN none({"safe"})
     ELSE
       LET regionInvalid == ~RegionsRangeData[R] \/ ~fn.isSafetly[R]
           data == analyzeReducedRegion(RegionsRangeData, o)
       IN IF regionInvalid
            THEN IF o.RR # NoRegion /\ fn.isSafetly[o.RR] /\ data[o.RR]
                   THEN Outcome(writeComputation(line, lineEnd, o.RR, o, s),
                                {"safe", "reduction", "recovery"},
                                FALSE, NoLoop, o.RR, line, lineEnd)
                   ELSE none({"safe", "reduction"})
            ELSE Outcome(writeComputation(line, lineEnd, R, o, s),
                         {"safe", "recovery"}, FALSE, NoLoop, R, line, lineEnd)

\* the range data after the activation: analyzeReducedRegion runs only when
\* the region is found invalid (lines 450-451)
rangeDataAfter(R, o) ==
  IF /\ isSafeMemoryCoalescing(R) /\ o.safe
     /\ (~RegionsRangeData[R] \/ ~fn.isSafetly[R])
    THEN analyzeReducedRegion(RegionsRangeData, o)
    ELSE RegionsRangeData

\* functionIdentify: the loops of the function's blocks (lines 473-483)
loopsOfFunction(g) == { g.loopFor[b] : b \in Range(g.blocks) } \ {NoLoop}

Parent(g, R) ==
  IF \E P \in RegionsOf(g) : R \in Range(g.children[P])
    THEN CHOOSE P \in RegionsOf(g) : R \in Range(g.children[P])
    ELSE NoRegion

\* the walk up from the region of the entry block (lines 486-491)
RECURSIVE topRegion(_, _)
topRegion(g, region) ==
  IF Parent(g, region) = NoRegion THEN region
  ELSE topRegion(g, Parent(g, region))

\* ------------------------------------------------------------------ inputs
\* the latch of a loop: absent, or present with any of the two markers
LatchData(g) ==
  { m \in [ hasLatch : [LoopsOf(g) -> BOOLEAN],
            isParallel : [LoopsOf(g) -> BOOLEAN],
            isDivergent : [LoopsOf(g) -> BOOLEAN] ] :
      \A L \in LoopsOf(g) :
        ~m.hasLatch[L] => (~m.isParallel[L] /\ ~m.isDivergent[L]) }

\* rr->isSafetly is consulted by the coalescing traversal only
SafetlyData(g, coalescing) ==
  IF coalescing THEN [RegionsOf(g) -> BOOLEAN]
                ELSE { [R \in RegionsOf(g) |-> TRUE] }

Analysed(g, m, safetly) ==
  [ cfg |-> g, hasLatch |-> m.hasLatch, isParallel |-> m.isParallel,
    isDivergent |-> m.isDivergent, isSafetly |-> safetly ]

Functions == { "Single", "Nest", "Split", "Extended" }

\* the functions of the translation unit that the analysed loops call:
\* F and G call each other, G also calls the external H
UnitCallGraph ==
  [ F |-> [kind |-> "defined", calls |-> << "G" >>],
    G |-> [kind |-> "defined", calls |-> << "F", "H" >>],
    H |-> [kind |-> "declaration", calls |-> << >>] ]

Body(kind, calls) == [kind |-> kind, calls |-> calls]

CallGraphs ==
  { [F |-> Body("defined", cf), G |-> Body("defined", cg), H |-> h] :
      cf \in CallLists, cg \in CallLists,
      h \in { Body(k, c) : k \in {"defined", "available_externally"},
                           c \in SeqsUpTo(Funcs, 1) }
            \cup { Body("declaration", << >>), Body("intrinsic", << >>) } }

\* The enumeration of a region's blocks starts at the entry block and follows
\* the control flow, so the header of a loop comes before the other blocks
\* of that loop.
Index(q, x) == CHOOSE i \in DOMAIN q : q[i] = x

HeaderFirst(g, bs) ==
  \A l \in LoopsOf(g) :
    g.header[l] \in Range(bs) =>
      \A b \in Range(bs) :
        g.loopFor[b] \in Nested(g, l) => Index(bs, g.header[l]) <= Index(bs, b)

Orders(q) ==
  { [i \in 1..Len(q) |-> q[p[i]]] : p \in Permutations(1..Len(q)) }

CopyInputs ==
  UNION { [S -> SeqsUpTo(Alphabet, 1)] : S \in SUBSET Lines }

Idle == [op |-> "none", n |-> 0]

\* ------------------------------------------------------------------- Init
InitMembers ==
  /\ numL = 0 /\ numAL = 0 /\ numWL = 0
  /\ NewVars = 0
  /\ Comments = NoComments
  /\ routines = {}
  /\ pending = << >>
  /\ last = Idle
  /\ names = << >>

NoAnalysis ==
  /\ program = << >>
  /\ fn = NoFunction
  /\ RegionsRangeData = << >>

\* the Comments map alone
InitComments ==
  /\ InitMembers /\ NoAnalysis
  /\ ClEmitParallel = FALSE /\ ClEmitOMP = ACC
  /\ ClDivergent = FALSE /\ ClCoalescing = FALSE
  /\ callGraph = UnitCallGraph

\* the Routine Registry alone
InitRoutines ==
  /\ InitMembers /\ NoAnalysis
  /\ ClEmitParallel = FALSE /\ ClDivergent = FALSE /\ ClCoalescing = FALSE
  /\ \/ ClEmitOMP = ACC /\ callGraph \in CallGraphs
     \/ ClEmitOMP \in {OMP_GPU, OMP_CPU} /\ callGraph = UnitCallGraph

\* the loop-level operations on the loop forest
InitLoops ==
  /\ InitMembers
  /\ ClEmitParallel \in BOOLEAN
  /\ ClEmitOMP \in {ACC, OMP_GPU, OMP_CPU}
  /\ ClDivergent \in BOOLEAN
  /\ ClCoalescing = TRUE
  /\ callGraph = UnitCallGraph
  /\ program = << >>
  /\ \E m \in LatchData(Forest) :
       fn = Analysed("Forest", m, [R \in RegionsOf(Forest) |-> TRUE])
  /\ RegionsRangeData = [R \in RegionsOf(Forest) |-> TRUE]

InitOptions ==
  /\ ClEmitParallel \in BOOLEAN
  /\ ClEmitOMP \in {ACC, OMP_GPU, OMP_CPU}
  /\ ClDivergent \in BOOLEAN
  /\ ClCoalescing \in BOOLEAN
  /\ callGraph = UnitCallGraph
  /\ fn = NoFunction
  /\ RegionsRangeData = << >>

\* the pass over a translation unit of one function
InitFunction ==
  /\ InitMembers /\ InitOptions
  /\ program \in { << g >> : g \in Functions }

\* the pass over a translation unit of several functions
InitUnit ==
  /\ InitMembers /\ InitOptions
  /\ program \in UNION { [1..n -> {"Single"}] : n \in 1..MaxFuncs }

\* ---------------------------------------------------------------- actions
AddCommentToLine ==
  /\ last.n < MaxOps
  /\ \E Comment \in Fragments, Line \in Lines :
       /\ Comments' = addCommentToLine(Comments, Comment, Line)
       /\ last' = [op |-> "addCommentToLine", n |-> last.n + 1,
                   Comment |-> Comment, Line |-> Line, before |-> Comments]
  /\ UNCHANGED << config, numL, numAL, numWL, NewVars, routines, callGraph,
                  program, fn, RegionsRangeData, pending, names >>

CopyComments ==
  /\ last.n < MaxOps
  /\ \E CommentsIn \in CopyInputs :
       /\ Comments' = copyComments(Comments, CommentsIn)
       /\ last' = [op |-> "copyComments", n |-> last.n + 1,
                   CommentsIn |-> CommentsIn, before |-> Comments]
  /\ UNCHANGED << config, numL, numAL, numWL, NewVars, routines, callGraph,
                  program, fn, RegionsRangeData, pending, names >>

FindACCroutines ==
  /\ \E f \in Funcs :
       LET s == findACCroutines(f, Now)
       IN /\ Commit(s)
          /\ last' = [op |-> "findACCroutines", n |-> 0, f |-> f,
                      before |-> routines, activations |-> s.activations,
                      diverged |-> s.diverged, regs |-> s.regs]
  /\ UNCHANGED << config, numL, callGraph, program, fn, RegionsRangeData,
                  pending >>

DenotateLoopParallel ==
  /\ last.op = "none"
  /\ \E L \in LoopsOf(CFG), restric \in BOOLEAN :
       LET condition == RestrictTest(ComputationName(1), restric)
           s == denotateLoopParallel(L, condition, Now)
       IN /\ Commit(s)
          /\ last' = [op |-> "denotateLoopParallel", n |-> 1, L |-> L,
                      condition |-> condition, emitted |-> s.emitted]
  /\ UNCHANGED << config, numL, callGraph, program, fn, RegionsRangeData,
                  pending >>

AnnotateAccKernels ==
  /\ last.op = "none"
  /\ \E R \in RegionsOf(CFG) \ {CFG.top}, restric \in BOOLEAN :
       \E bs \in Orders(CFG.rblocks[R]) :
         LET s == annotateAccKernels(R, bs, ComputationName(1), restric, Now)
         IN /\ Commit(s)
            /\ last' = [op |-> "annotateAccKernels", n |-> 1, R |-> R,
                        headerFirst |-> HeaderFirst(CFG, bs),
                        kernels |-> s.kernels]
  /\ UNCHANGED << config, numL, callGraph, program, fn, RegionsRangeData,
                  pending >>

\* runOnFunction up to the call of the traversal on the top region
RunOnFunction ==
  /\ pending = << >>
  /\ program # << >>
  /\ LET g == Shapes[Head(program)]
     IN /\ \E m \in LatchData(g), safetly \in SafetlyData(g, ClCoalescing) :
             fn' = Analysed(Head(program), m, safetly)
        /\ RegionsRangeData' \in [RegionsOf(g) -> BOOLEAN]
        /\ numL' = numL + Cardinality(loopsOfFunction(g))
        /\ pending' = << topRegion(g, g.regionFor[Head(g.blocks)]) >>
  /\ program' = Tail(program)
  /\ NewVars' = 0
  /\ Comments' = NoComments
  /\ last' = [op |-> "runOnFunction", n |-> 0, startWL |-> numWL,
              favourable |-> TRUE]
  /\ UNCHANGED << config, numAL, numWL, routines, callGraph, names >>

\* `favourable`: every collaborator asked since runOnFunction found the
\* region safe and recovered the expressions without fragments of its own
Visit(op, R, o, out) ==
  [ op |-> op, n |-> 0, R |-> R, full |-> RegionsRangeData[R],
    startWL |-> last.startWL,
    favourable |-> last.favourable /\ o.safe /\ o.ok /\ ~o.frag,
    before |-> Comments, loop |-> out.loop, region |-> out.region,
    line |-> out.line, lineEnd |-> out.lineEnd,
    emitted |-> out.s.emitted, kernels |-> out.s.kernels ]

Descend(R, out) ==
  (IF out.descend THEN CFG.children[R] ELSE << >>) \o Tail(pending)

\* one activation of regionIdentify
RegionIdentify ==
  /\ pending # << >>
  /\ ~ClCoalescing
  /\ LET R == Head(pending)
     IN \E o \in Answers(CFG, R) :
          LET out == regionIdentify(R, o, Now)
          IN /\ AsAsked(o, out.asked)
             /\ Commit(out.s)
             /\ pending' = Descend(R, out)
             /\ last' = Visit("regionIdentify", R, o, out)
  /\ UNCHANGED << config, numL, callGraph, program, fn, RegionsRangeData >>

\* one activation of regionIdentifyCoalescing
RegionIdentifyCoalescing ==
  /\ pending # << >>
  /\ ClCoalescing
  /\ LET R == Head(pending)
     IN \E o \in Answers(CFG, R) :
          LET out == regionIdentifyCoalescing(R, o, Now)
          IN /\ AsAsked(o, out.asked)
             /\ Commit(out.s)
             /\ RegionsRangeData' = rangeDataAfter(R, o)
             /\ pending' = Descend(R, out)
             /\ last' = Visit("regionIdentifyCoalescing", R, o, out)
  /\ UNCHANGED << config, numL, callGraph, program, fn >>

\* --------------------------------------------------------- specifications
NextComments == AddCommentToLine \/ CopyComments

SpecComments == InitComments /\ [][NextComments]_vars

NextRoutines == FindACCroutines

SpecRoutines == InitRoutines /\ [][NextRoutines]_vars

NextLoops == DenotateLoopParallel \/ AnnotateAccKernels

SpecLoops == InitLoops /\ [][NextLoops]_vars

Next == RunOnFunction \/ RegionIdentify \/ RegionIdentifyCoalescing

Spec == InitFunction /\ [][Next]_vars

SpecUnit == InitUnit /\ [][Next]_vars

\* ================================================================= claims
NoDuplicates(q) == \A i, j \in DOMAIN q : q[i] = q[j] => i = j

\* ---------------------------------------------------------------------- C2
\* what addCommentToLine(Comment, Line) made of the map `before`
C2_Step ==
  last.op = "addCommentToLine" =>
    LET C == last.before
        f == last.Comment
        l == last.Line
    IN IF l \in DOMAIN C /\ IsSubstring(f, C[l])
         THEN Comments = C
         ELSE /\ DOMAIN Comments = DOMAIN C \cup {l}
              /\ Comments[l] = TextAt(C, l) \o f
              /\ \A k \in DOMAIN C \ {l} : Comments[k] = C[k]

C2_Twice ==
  \A f \in Fragments, l \in Lines :
    LET once == addCommentToLine(Comments, f, l)
    IN addCommentToLine(once, f, l) = once

\* the text of a line after A and then B: the old text, then A unless A was
\* already in it, then B unless B was already in what precedes
C2_Order ==
  \A A \in Fragments, B \in Fragments, l \in Lines :
    LET t0 == TextAt(Comments, l)
        CA == addCommentToLine(Comments, A, l)
        CB == addCommentToLine(CA, B, l)
    IN /\ CA[l] \in {t0, t0 \o A}
       /\ CA[l] = t0 => (IsSubstring(A, t0) \/ A = << >>)
       /\ CB[l] \in {CA[l], CA[l] \o B}
       /\ CB[l] = CA[l] => IsSubstring(B, CA[l])
       /\ \A k \in DOMAIN CB \ {l} : k \in DOMAIN Comments /\ CB[k] = Comments[k]

\* C2: addCommentToLine(fragment, line) leaves the whole map unchanged when
\* the line has a text and the fragment occurs in it as a substring, and
\* otherwise sets the line's text to the old text (empty for a line without
\* an entry) followed by the fragment, every other line unchanged; inserting
\* a fragment twice gives what inserting it once gives, and of two fragments
\* A then B inserted on one line, what A adds precedes what B adds.
C2_SubstringDedup == C2_Step /\ C2_Twice /\ C2_Order

\* a fragment that is a proper part of the line's text was skipped
C2_Witness ==
  /\ last.op = "addCommentToLine"
  /\ last.Line \in DOMAIN last.before
  /\ last.Comment # << >>
  /\ last.Comment # last.before[last.Line]
  /\ IsSubstring(last.Comment, last.before[last.Line])
  /\ Comments = last.before

\* ---------------------------------------------------------------------- C4
\* the two-function cycle of the claim: F calls G, G calls F
C4_Cycle ==
  /\ ClEmitOMP = ACC
  /\ callGraph["F"] = Body("defined", << "G" >>)
  /\ callGraph["G"] = Body("defined", << "F" >>)
  /\ last.op = "findACCroutines"
  /\ last.f = "F"
  /\ last.before = {}

\* C4: findACCroutines(f) ends on every call graph, after no more
\* activations than one per call instruction of the bodies it scans (each
\* body at most once) plus the first; it registers only eligible functions,
\* each at most once and none that was registered before; on the cycle
\* F calls G, G calls F with an empty registry and the accelerator target
\* the registry afterwards is exactly {F, G}.
C4_Terminates ==
  last.op = "findACCroutines" =>
    /\ ~last.diverged
    /\ last.activations <= 1 + Cardinality(Funcs) * MaxCalls
    /\ NoDuplicates(last.regs)
    /\ Range(last.regs) \cap last.before = {}
    /\ routines = last.before \cup Range(last.regs)
    /\ \A f \in Range(last.regs) :
         /\ ~isDeclaration(f) /\ ~isIntrinsic(f)
         /\ ~hasAvailableExternallyLinkage(f)
         /\ ClEmitOMP = ACC
    /\ C4_Cycle => routines = {"F", "G"}

C4_Witness == C4_Cycle /\ last.regs = << "F", "G" >> /\ last.activations = 2

\* ---------------------------------------------------------------------- C8
\* what denotateLoopParallel itself asks of a loop (lines 150-159)
C8_Valid(D) ==
  fn.hasLatch[D] /\ fn.isParallel[D] /\ ~(ClDivergent /\ fn.isDivergent[D])

\* the loops of the nest of L that the recursion gets to: those whose
\* enclosing loops up to L, and themselves, all pass the checks
C8_Reached(L) ==
  { D \in Nested(CFG, L) :
      \A A \in Nested(CFG, L) : D \in Nested(CFG, A) => C8_Valid(A) }

\* C8 as stated: when denotateLoopParallel emits the directive for L it
\* emits it for every loop nested in L and counts each of them, whatever
\* the latch and marker of the nested loop.
C8_Unconditional ==
  (last.op = "denotateLoopParallel" /\ last.emitted # << >>) =>
    /\ Range(last.emitted) = Nested(CFG, last.L)
    /\ numWL = Cardinality(Nested(CFG, last.L))

\* C8 amended: denotateLoopParallel(L, condition) emits the directive, with
\* the same condition, and counts the loop, for exactly the loops of L's
\* nest that have a latch with the parallel marker (and, with
\* -Discard-Divergent, without the divergent marker) and whose enclosing
\* loops up to L all have one too: every nested loop is checked again, and
\* the loops under a loop that fails the check are not reached.
C8_Revalidated ==
  last.op = "denotateLoopParallel" =>
    /\ NoDuplicates(last.emitted)
    /\ Range(last.emitted) = C8_Reached(last.L)
    /\ numWL = Len(last.emitted)
    /\ DOMAIN Comments = { CFG.startLine[D] : D \in C8_Reached(last.L) }
    /\ \A D \in C8_Reached(last.L) :
         Comments[CFG.startLine[D]] = LoopPragma(last.condition)

\* L1 and L3 were annotated, L2 was not, and L4 under it was not reached
\* although it has the marker itself
C8_Witness ==
  /\ last.op = "denotateLoopParallel"
  /\ last.L = "L1"
  /\ last.emitted = << "L1", "L3" >>
  /\ C8_Valid("L4")
  /\ numWL = 2

\* ---------------------------------------------------------------------- C9
\* the loops with header in R that no other loop with header in R contains
C9_Outermost(R) ==
  { l \in LoopsOf(CFG) :
      /\ Contains(CFG, R, CFG.header[l])
      /\ \A M \in LoopsOf(CFG) \ {l} :
           ~(Contains(CFG, R, CFG.header[M]) /\ l \in Nested(CFG, M)) }

\* C9: in one call of annotateAccKernels(R, name, restrict), in whatever
\* order the blocks of R come, no loop is passed to writeKernels twice and
\* no loop is passed after a loop that contains it; every loop passed has
\* its header in R and the kernels directive is put on the lines of passed
\* loops only.  When the enumeration yields the header of a loop before the
\* other blocks of that loop (as the region's block iterator does), the
\* loops passed are exactly the outermost loops with header in R.
C9_OutermostOnly ==
  last.op = "annotateAccKernels" =>
    /\ NoDuplicates(last.kernels)
    /\ \A i, j \in DOMAIN last.kernels :
         i < j => last.kernels[j] \notin Nested(CFG, last.kernels[i])
    /\ \A l \in Range(last.kernels) : Contains(CFG, last.R, CFG.header[l])
    /\ \A l \in LoopsOf(CFG) :
         IsSubstring(<< "#pragma acc kernels" >>,
                     TextAt(Comments, CFG.startLine[l]))
           => l \in Range(last.kernels)
    /\ last.headerFirst =>
         Range(last.kernels) =
           IF isSafeMemoryCoalescing(last.R) THEN C9_Outermost(last.R) ELSE {}

\* R1 holds the headers of L1, of L2 inside it and of L4 inside L2: L1 alone
\* was passed and has the directive
C9_Witness ==
  /\ last.op = "annotateAccKernels"
  /\ last.R = "R1"
  /\ last.kernels = << "L1" >>
  /\ IsSubstring(<< "#pragma acc kernels" >>,
                 TextAt(Comments, CFG.startLine["L1"]))

\* ------------------------------------------------- claims on the traversal
Visits == {"regionIdentify", "regionIdentifyCoalescing"}

Analysing == last.op \in Visits \cup {"runOnFunction"}

\* the traversal of the function has ended
Traversed == last.op \in Visits /\ pending = << >>

\* the function's only loop is L1, not nested, and the oracle reports
\* complete information for every region
OneLoopFullInfo ==
  /\ Analysing
  /\ LoopsOf(CFG) = {"L1"}
  /\ \A R \in RegionsOf(CFG) : RegionsRangeData[R]

\* the first token of the parallel-loop directive
LoopDirective == << Head(LoopPragma(<< >>)) >>

\* ---------------------------------------------------------------------- C6
C6_Case ==
  /\ OneLoopFullInfo
  /\ fn.hasLatch["L1"] /\ fn.isParallel["L1"] /\ fn.isDivergent["L1"]
  /\ ClEmitParallel /\ ClDivergent

\* C6: for a function whose only loop has complete side-effect information
\* and a latch with both the parallel and the divergent marker, with
\* -Emit-Parallel and -Discard-Divergent, the traversal (either policy)
\* never puts an entry on the loop's start line, puts the parallel-loop
\* directive nowhere, and leaves numWL at its value before the function.
C6_DivergentDiscarded ==
  C6_Case =>
    /\ CFG.startLine["L1"] \notin DOMAIN Comments
    /\ \A l \in DOMAIN Comments : ~IsSubstring(LoopDirective, Comments[l])
    /\ numWL = last.startWL
    /\ numWL = 0

\* the traversal by regionIdentify of such a function has ended
C6_Witness == C6_Case /\ Traversed /\ ~ClCoalescing /\ last.favourable

\* ---------------------------------------------------------------------- C3
\* C3 as stated: the visit of a region for which the oracle reports
\* incomplete information adds nothing to the Comments map.
C3_NothingWhenIncomplete ==
  (last.op \in Visits /\ ~last.full) => Comments = last.before

\* the innermost regions of the header and of every block of loop l all
\* have complete information
C3_LoopRegionsFull(l) ==
  \A b \in {CFG.header[l]} \cup Range(LoopBlocks(CFG, l)) :
    RegionsRangeData[CFG.regionFor[b]]

C3_Loop ==
  (last.op = "regionIdentify" /\ Comments # last.before) =>
    /\ last.line # ERROR_VALUE
    /\ CFG.loopFor[Head(CFG.rblocks[last.R])] # NoLoop
    /\ C3_LoopRegionsFull(CFG.loopFor[Head(CFG.rblocks[last.R])])
    /\ CFG.regionFor[Head(CFG.rblocks[last.R])] = last.R => last.full

C3_Region ==
  (last.op = "regionIdentifyCoalescing" /\ ~last.full
     /\ Comments # last.before) =>
    /\ last.region \in Descendants(CFG, last.R)
    /\ fn.isSafetly[last.region]
    /\ RegionsRangeData[last.region]

\* C3 amended: the visit of R by regionIdentify adds fragments only when
\* the oracle reports complete information for the innermost region of the
\* header and of every block of the loop of R's first block (the flag of R
\* itself is not read, so R adds nothing when it is incomplete and is the
\* innermost region of its first block); the visit of an incomplete R by
\* regionIdentifyCoalescing adds fragments only when the reduction gives a
\* sub-region of R that is safety-valid and has complete information, and
\* then for that sub-region.
C3_Conservative == C3_Loop /\ C3_Region

\* the visit of the incomplete region R1, which extends the complete loop
\* region R2, annotated the loop
C3_Witness ==
  /\ last.op = "regionIdentify"
  /\ fn.cfg = "Extended"
  /\ last.R = "R1"
  /\ ~last.full
  /\ last.loop = "L1"
  /\ Comments # last.before

\* ---------------------------------------------------------------------- C5
\* C5: when regionIdentifyCoalescing finds R invalid and hands the reduced
\* region RR to writeComputation, the start line and the line of the
\* closing "}" are the start line and the end line + 1 of RR, not of R.
C5_ReducedRegionLines ==
  (last.op = "regionIdentifyCoalescing"
     /\ last.region \notin {NoRegion, last.R}) =>
    /\ last.line = CFG.startRL[last.region]
    /\ last.lineEnd = CFG.endRL[last.region] + 1

\* ---------------------------------------------------------------------- C7
C7_Case ==
  /\ OneLoopFullInfo
  /\ Traversed
  /\ last.op = "regionIdentify"
  /\ fn.hasLatch["L1"] /\ fn.isParallel["L1"]
  /\ ClEmitParallel /\ ~ClDivergent /\ ~ClCoalescing
  /\ last.favourable

\* C7: for a function whose only loop has complete information and the
\* parallel marker, with -Emit-Parallel, without -Discard-Divergent and
\* -Memory-Coalescing, every collaborator favourable, the traversal by
\* regionIdentify ends with exactly one Comments entry, at the loop's start
\* line, holding the parallel-loop directive, and with numWL one more than
\* before the function, whatever the region tree around the loop.
C7_ExactlyOne ==
  C7_Case =>
    /\ DOMAIN Comments = {CFG.startLine["L1"]}
    /\ IsSubstring(LoopDirective, Comments[CFG.startLine["L1"]])
    /\ numWL = last.startWL + 1

\* --------------------------------------------------------------------- C10
\* C10: the annotated-loop and analyzable-loop counters never exceed the
\* loops-seen counter.
C10_CountersBounded == numWL <= numL /\ numAL <= numL

\* ---------------------------------------------------------------------- C1
\* C1: no sequence number is handed out twice in a run, in one function or
\* in different functions.
C1_NeverRepeats == NoDuplicates(names)

=============================================================================
